---- MODULE Spec2Model ----
(***************************************************************************)
(* Model of the Healthbuddy query-forwarding handler (src/api/query.js):   *)
(* the in-memory session registry, the request handler with its            *)
(* suspension points at the upstream call, and the periodic expiry sweep.  *)
(* The chat component (src/unnamed/part_003) is modelled beside it, with   *)
(* the server it talks to reduced to the outcomes of its fetch.            *)
(*                                                                         *)
(* Text is modelled as sequences of one-character strings so that the      *)
(* prompt assembly (map, join, slice) is computed as the code computes it. *)
(* Time is counted in minutes: Date.now() is `clock`.                      *)
(***************************************************************************)
EXTENDS Integers, Sequences, FiniteSets, TLC

(***************************************************************************)
(* Bounds of the model.                                                    *)
(***************************************************************************)
MaxHandlers   == 2    \* requests that can be in flight at the same time
MaxRequests   == 2    \* requests received in a run of Spec
MaxIdleTurns  == 2    \* requests received in a run of SpecExpiry
MaxIdleClock  == 66   \* minutes of wall-clock time in a run of SpecExpiry
MaxTurns      == 25   \* requests received in a run of SpecSeq
MaxFailures   == 1    \* turns of a run of SpecSeq that end without a reply
TurnsPerMinute == 8   \* requests of a run of SpecSeq that arrive within one minute
MaxAnonTurns  == 3    \* requests received in a run of SpecAnon
MaxTouchTurns == 3    \* requests received in a run of SpecTouch
MaxTouchClock == 6    \* minutes of wall-clock time in a run of SpecTouch
MaxPending    == 2    \* sends of the chat component awaiting their response at one time
MaxSends      == 3    \* messages sent in a run of SpecChat

(***************************************************************************)
(* Program constants.                                                      *)
(***************************************************************************)
MaxMessages   == 20   \* session.messages.slice(-20)
ContextWindow == 10   \* session.messages.slice(-10)
OneHour       == 60   \* 60 * 60 * 1000 ms, in minutes
SweepPeriod   == 5    \* 5 * 60 * 1000 ms, in minutes
RolePrefixLen == 6    \* the 6 of slice(0, -query.length - 6): Len("user: ")

H          == 1..MaxHandlers
SessionIds == {"A", "B"}
Methods    == {"POST", "GET", "OPTIONS"}
Empty      == << >>
Queries    == {<<"h">>, <<"o", "k">>}
Answers    == {<<"y">>}
NoSession  == 0
Undefined  == "undefined"                   \* the sessionId of a body that has none
Keys       == SessionIds \cup {Undefined}   \* the keys the Map is used with
Clients    == {1, 2}                        \* browser tabs running the chat component

VARIABLES
    sessions,    \* the Map: session id -> index of the session object in heap, or NoSession
    heap,        \* the session objects ever created, in creation order
    log,         \* history: for each session object, every message ever pushed onto it
    hs,          \* per handler invocation: position and locals
    apiKey,      \* whether process.env.API_KEY is set
    clock,       \* Date.now(), in minutes
    nextSweep,   \* the time at which the interval timer fires next
    nreq,        \* requests received so far
    chat         \* the state of the chat component of one browser tab

vars == <<sessions, heap, log, hs, apiKey, clock, nextSweep, nreq, chat>>

\* the variables of the server process
serverVars == <<sessions, heap, log, hs, apiKey, clock, nextSweep, nreq>>

(***************************************************************************)
(* Text helpers: String.prototype.slice, Array.prototype.slice and join.   *)
(***************************************************************************)
Min(a, b) == IF a < b THEN a ELSE b

\* s.slice(-n) for n > 0, on arrays and strings
SliceLast(s, n) == IF Len(s) <= n THEN s ELSE SubSeq(s, Len(s) - n + 1, Len(s))

\* s.slice(0, -k) for k > 0
SliceDropLast(s, k) == IF k >= Len(s) THEN << >> ELSE SubSeq(s, 1, Len(s) - k)

RECURSIVE JoinNl(_)
\* lines.join('\n')
JoinNl(lines) ==
    IF Len(lines) = 0 THEN << >>
    ELSE IF Len(lines) = 1 THEN lines[1]
    ELSE lines[1] \o <<"\n">> \o JoinNl(Tail(lines))

RoleText(role) ==
    IF role = "user" THEN <<"u", "s", "e", "r">>
    ELSE <<"a", "s", "s", "i", "s", "t", "a", "n", "t">>

PreviousConversation ==
    <<"P", "r", "e", "v", "i", "o", "u", "s", " ", "c", "o", "n", "v", "e", "r",
      "s", "a", "t", "i", "o", "n", ":", "\n">>

CurrentQuestion ==
    <<"\n", "\n", "C", "u", "r", "r", "e", "n", "t", " ", "q", "u", "e", "s",
      "t", "i", "o", "n", ":", " ">>

NoResponseReceived ==
    <<"N", "o", " ", "r", "e", "s", "p", "o", "n", "s", "e", " ", "r", "e", "c",
      "e", "i", "v", "e", "d">>

\* msg => `${msg.role}: ${msg.content}`
RenderMessage(msg) == RoleText(msg.role) \o <<":", " ">> \o msg.content

\* a context window of the 10 prior messages and the current one: slice(-11)
ConversationContextWide(messages) ==
    LET window == SliceLast(messages, ContextWindow + 1)
    IN  JoinNl([i \in 1..Len(window) |-> RenderMessage(window[i])])

\* session.messages.slice(-10).map(...).join('\n')
ConversationContext(messages) ==
    LET window == SliceLast(messages, ContextWindow)
    IN  JoinNl([i \in 1..Len(window) |-> RenderMessage(window[i])])

\* a prompt assembly that takes the history branch on every turn
ContextualQueryNoBranch(messages, query) ==
    PreviousConversation
    \o SliceDropLast(ConversationContext(messages), Len(query) + RolePrefixLen)
    \o CurrentQuestion \o query

\* a branch test that asks whether the session has had a reply, instead of its length
ContextualQueryNoReplyYet(messages, query) ==
    IF \A i \in 1..Len(messages) : messages[i].role # "assistant" THEN query
    ELSE PreviousConversation
         \o SliceDropLast(ConversationContext(messages), Len(query) + RolePrefixLen)
         \o CurrentQuestion \o query

\* the contextualQuery sent upstream
ContextualQuery(messages, query) ==
    IF Len(messages) = 1
    THEN query
    ELSE PreviousConversation
         \o SliceDropLast(ConversationContext(messages), Len(query) + RolePrefixLen)
         \o CurrentQuestion \o query

(***************************************************************************)
(* Session objects.                                                        *)
(***************************************************************************)
Message(role, content, now) == [role |-> role, content |-> content, timestamp |-> now]

\* a session object whose createdAt is left at the epoch
NewSessionEpoch(sid, now) ==
    [id |-> sid, messages |-> << >>, createdAt |-> 0, lastActivity |-> now]

\* session = {id, messages: [], createdAt: Date.now(), lastActivity: Date.now()}
NewSession(sid, now) ==
    [id |-> sid, messages |-> << >>, createdAt |-> now, lastActivity |-> now]

\* a truncation that keeps the oldest messages: slice(0, 20)
TruncateKeepOldest(messages) ==
    IF Len(messages) > MaxMessages THEN SubSeq(messages, 1, MaxMessages) ELSE messages

\* if (session.messages.length > 20) session.messages = session.messages.slice(-20)
Truncate(messages) ==
    IF Len(messages) > MaxMessages THEN SliceLast(messages, MaxMessages) ELSE messages

\* a push of the user message that is skipped when the API key is missing
PushUserIfKey(messages, query, now) ==
    IF apiKey THEN Truncate(Append(messages, Message("user", query, now))) ELSE messages

\* session.messages.push(user message), then the truncation to the last 20
PushUser(messages, query, now) == Truncate(Append(messages, Message("user", query, now)))

\* a reply content taken from data.answer as it is
AnswerAsIs(answer) == answer

\* data.answer || "No response received"
AnswerOrPlaceholder(answer) == IF answer = Empty THEN NoResponseReceived ELSE answer

\* a reply put at the front of the list: unshift instead of push
PushAssistantUnshift(messages, answer, now) ==
    <<Message("assistant", AnswerOrPlaceholder(answer), now)>> \o messages

\* session.messages.push(assistant message), which no truncation follows
PushAssistant(messages, answer, now) ==
    Append(messages, Message("assistant", AnswerOrPlaceholder(answer), now))

\* a lookup that ignores the id and returns the one session of the process
SessionsGetShared(sid) ==
    IF \E k \in SessionIds : sessions[k] # NoSession
    THEN sessions[CHOOSE k \in SessionIds : sessions[k] # NoSession]
    ELSE NoSession

\* a lookup that never finds the session
SessionsGetMiss(sid) == NoSession

\* a lookup that treats a session idle for over an hour as absent
SessionsGetFresh(sid) ==
    IF sessions[sid] # NoSession /\ heap[sessions[sid]].lastActivity < clock - OneHour
    THEN NoSession ELSE sessions[sid]

\* sessions.get(sessionId)
SessionsGet(sid) == sessions[sid]

\* an expiry test that also removes a session idle for exactly one hour
ExpiredInclusive(session, now) == session.lastActivity <= now - OneHour

\* session.lastActivity < oneHourAgo
Expired(session, now) == session.lastActivity < now - OneHour

\* a sweep loop that stops after the first session it deletes
SweptFirstOnly(reg, now) ==
    LET old == {k \in Keys : reg[k] # NoSession /\ Expired(heap[reg[k]], now)}
    IN  IF old = {} THEN reg
        ELSE [reg EXCEPT ![CHOOSE k \in old : TRUE] = NoSession]

\* the for loop of the sweep over the registry reg at time now: sessions.delete of
\* every expired entry
Swept(reg, now) ==
    [k \in Keys |->
        IF reg[k] # NoSession /\ Expired(heap[reg[k]], now) THEN NoSession ELSE reg[k]]

\* a touch that writes the sweep's threshold, one hour before now
TouchHourAgo(session, now) == [session EXCEPT !.lastActivity = now - OneHour]

\* session.lastActivity = Date.now()
Touch(session, now) == [session EXCEPT !.lastActivity = now]

\* a validation that accepts every body
QueryMissingNever(query) == FALSE

\* !query
QueryMissing(query) == query = Empty

(***************************************************************************)
(* Request bodies.                                                         *)
(***************************************************************************)
\* JSON.stringify({query: userMessage.content}): the body the chat component sends
WorkingChatBody(query) == [query |-> query]

\* a destructuring that gives a body without sessionId an id of its own
BodySessionIdOwn(body) ==
    IF "sessionId" \in DOMAIN body THEN body.sessionId
    ELSE IF body.query = <<"h">> THEN "A" ELSE "B"

\* const {query, sessionId} = req.body
BodySessionId(body) ==
    IF "sessionId" \in DOMAIN body THEN body.sessionId ELSE Undefined
BodyQuery(body) == IF "query" \in DOMAIN body THEN body.query ELSE Empty

(***************************************************************************)
(* Handler invocations.                                                    *)
(* pc: "idle" (no request), "fetch" (awaiting fetch), "text" (awaiting     *)
(* response.text()), "json" (awaiting response.json()), "done" (responded).*)
(* upos, arr and fin are history: the position of the turn's user message  *)
(* in the log of its session object, the arrival number of the request and *)
(* the number of requests received when the response was written; calls    *)
(* counts the invocations of fetch the request has made.  status, error,   *)
(* count (messageCount) and rsid (sessionId) are what the response holds.  *)
(***************************************************************************)
IdleHandler ==
    [pc |-> "idle", method |-> "", sid |-> "", query |-> Empty, session |-> NoSession,
     prompt |-> Empty, status |-> 0, error |-> "", count |-> 0,
     upos |-> 0, arr |-> 0, fin |-> 0, calls |-> 0, rsid |-> ""]

InFlight(h) == hs[h].pc \in {"fetch", "text", "json"}

\* an entry gate that admits one request at a time
CanStartSerial(h) == hs[h].pc = "idle" /\ \A g \in H : ~InFlight(g)

\* handler entry: the invocation slot is free; the code takes no lock
CanStart(h) == hs[h].pc = "idle"

Respond(r, status, error, count) ==
    [r EXCEPT !.pc = "done", !.prompt = Empty, !.status = status, !.error = error,
              !.count = count, !.fin = nreq]

\* a response body in which the upstream fields win: {sessionId, messageCount, ...data}
ResponseBodyDataLast(data, sid, count) ==
    [k \in DOMAIN data \cup {"sessionId", "messageCount"} |->
        IF k \in DOMAIN data THEN data[k]
        ELSE IF k = "sessionId" THEN sid ELSE count]

\* {...data, sessionId: sessionId, messageCount: session.messages.length}
ResponseBody(data, sid, count) ==
    [k \in DOMAIN data \cup {"sessionId", "messageCount"} |->
        IF k = "sessionId" THEN sid
        ELSE IF k = "messageCount" THEN count
        ELSE data[k]]

\* res.status(200).json(body)
Respond200(r, body) ==
    [Respond(r, 200, "", body.messageCount) EXCEPT !.rsid = body.sessionId]

\* data.answer of the parsed upstream body (Empty: missing or "")
DataAnswer(data) == IF "answer" \in DOMAIN data THEN data.answer ELSE Empty

\* the JSON bodies the upstream service answers with: an answer, an empty answer, no
\* answer, and an answer next to fields named like those the handler adds
UpstreamBodies ==
    {[answer |-> a] : a \in Answers \cup {Empty}}
    \cup {[status |-> "ok"]}
    \cup {[answer |-> a, sessionId |-> "upstream", messageCount |-> 0] : a \in Answers}

(***************************************************************************)
(* The chat component that keeps the input enabled while a reply is        *)
(* pending (src/unnamed/part_003).  Each call of handleSend is a send:     *)
(* pc "idle" (not running), "fetch" (awaiting fetch), "json" (awaiting     *)
(* response.json()); wasLoading is its local constant; n numbers the       *)
(* sends and tags the messages they append (history).                      *)
(***************************************************************************)
ChatSlots == 1..MaxPending
ChatTexts == Queries
ConnectionError == <<"Connection error. Please try again.">>

IdleSend == [pc |-> "idle", wasLoading |-> FALSE, n |-> 0]

\* useState(""), useState([]), useState(false)
IdleChat ==
    [isLoading |-> FALSE, messages |-> << >>, nsend |-> 0,
     sends |-> [s \in ChatSlots |-> IdleSend]]

ChatMessage(sender, content, n) == [sender |-> sender, content |-> content, send |-> n]

\* finally { if (!wasLoading) setIsLoading(false) }, and the call returns
Finally(c, s) ==
    [c EXCEPT !.isLoading = IF c.sends[s].wasLoading THEN @ ELSE FALSE,
              !.sends[s] = IdleSend]

\* catch (error) { setMessages(prev => [...prev, errorMessage]) }
CatchError(c, s) ==
    [c EXCEPT !.messages = Append(@, ChatMessage("ai", ConnectionError, c.sends[s].n))]

\* handleSend, from the click to its await of fetch
HandleSend(s, text) ==
    /\ chat.sends[s].pc = "idle"
    /\ text # Empty
    /\ chat' = [chat EXCEPT
                  !.messages = Append(@, ChatMessage("user", text, chat.nsend + 1)),
                  !.isLoading = IF ~chat.isLoading THEN TRUE ELSE @,
                  !.nsend = @ + 1,
                  !.sends[s] = [pc |-> "fetch", wasLoading |-> chat.isLoading,
                                n |-> chat.nsend + 1]]
    /\ UNCHANGED serverVars

\* await fetch(...) resolves; a response that is not ok throws into the catch block
ChatFetchResolves(s, ok) ==
    /\ chat.sends[s].pc = "fetch"
    /\ chat' = IF ok THEN [chat EXCEPT !.sends[s].pc = "json"]
               ELSE Finally(CatchError(chat, s), s)
    /\ UNCHANGED serverVars

\* await fetch(...) rejects
ChatFetchRejects(s) ==
    /\ chat.sends[s].pc = "fetch"
    /\ chat' = Finally(CatchError(chat, s), s)
    /\ UNCHANGED serverVars

\* await response.json() resolves with data: the AI message is appended
ChatJsonResolves(s, data) ==
    /\ chat.sends[s].pc = "json"
    /\ chat' = Finally([chat EXCEPT !.messages =
                           Append(@, ChatMessage("ai", AnswerOrPlaceholder(DataAnswer(data)),
                                                 chat.sends[s].n))], s)
    /\ UNCHANGED serverVars

\* await response.json() rejects
ChatJsonRejects(s) ==
    /\ chat.sends[s].pc = "json"
    /\ chat' = Finally(CatchError(chat, s), s)
    /\ UNCHANGED serverVars

\* fetch(url, {method: 'POST', ..., body: JSON.stringify({query: contextualQuery})}),
\* up to its await
CallUpstream(r) == [r EXCEPT !.pc = "fetch", !.calls = @ + 1]

Init ==
    /\ sessions = [k \in Keys |-> NoSession]
    /\ heap = << >>
    /\ log = << >>
    /\ hs = [h \in H |-> IdleHandler]
    /\ apiKey \in BOOLEAN
    /\ clock = 0
    /\ nextSweep = SweepPeriod
    /\ nreq = 0
    /\ chat = IdleChat

(***************************************************************************)
(* handler(req, res), from entry to its first await or its early return.   *)
(***************************************************************************)
Request(h, method, query, sid) ==
    /\ CanStart(h)
    /\ nreq' = nreq + 1
    /\ UNCHANGED <<apiKey, chat, clock, nextSweep>>
    /\ LET r0 == [IdleHandler EXCEPT !.method = method, !.arr = nreq + 1,
                                     !.fin = nreq + 1]
       IN
       IF method = "OPTIONS" THEN
            /\ hs' = [hs EXCEPT ![h] = [r0 EXCEPT !.pc = "done", !.status = 200]]
            /\ UNCHANGED <<sessions, heap, log>>
       ELSE IF method # "POST" THEN
            /\ hs' = [hs EXCEPT ![h] = [r0 EXCEPT !.pc = "done", !.status = 405,
                                                  !.error = "Method not allowed"]]
            /\ UNCHANGED <<sessions, heap, log>>
       ELSE IF QueryMissing(query) THEN
            /\ hs' = [hs EXCEPT ![h] = [r0 EXCEPT !.pc = "done", !.status = 400,
                                                  !.error = "Query is required"]]
            /\ UNCHANGED <<sessions, heap, log>>
       ELSE
            LET found    == SessionsGet(sid)
                o        == IF found = NoSession THEN Len(heap) + 1 ELSE found
                heap1    == IF found = NoSession
                            THEN Append(heap, NewSession(sid, clock)) ELSE heap
                log1     == IF found = NoSession THEN Append(log, << >>) ELSE log
                messages == PushUser(heap1[o].messages, query, clock)
                prompt   == ContextualQuery(messages, query)
                r1       == [r0 EXCEPT !.sid = sid, !.query = query, !.session = o,
                                       !.prompt = prompt, !.upos = Len(log1[o]) + 1]
            IN  /\ sessions' = IF found = NoSession
                               THEN [sessions EXCEPT ![sid] = o] ELSE sessions
                /\ heap' = [heap1 EXCEPT
                              ![o] = Touch([@ EXCEPT !.messages = messages], clock)]
                /\ log' = [log1 EXCEPT ![o] = Append(@, Message("user", query, clock))]
                /\ hs' = [hs EXCEPT ![h] =
                            IF ~apiKey
                            THEN Respond(r1, 500, "API key not configured", 0)
                            ELSE CallUpstream(r1)]

\* await fetch(...) resolves with a response; ok is response.ok
FetchResolves(h, ok) ==
    /\ hs[h].pc = "fetch"
    /\ hs' = [hs EXCEPT ![h].pc = IF ok THEN "json" ELSE "text"]
    /\ UNCHANGED <<sessions, heap, log, apiKey, chat, clock, nextSweep, nreq>>

\* a catch block that records a fallback reply in the session before answering 500
FetchRejectsWithFallback(h) ==
    /\ hs[h].pc = "fetch"
    /\ heap' = [heap EXCEPT ![hs[h].session].messages =
                    PushAssistant(@, Empty, clock)]
    /\ hs' = [hs EXCEPT ![h] = Respond(@, 500, "Failed to process request", 0)]
    /\ UNCHANGED <<sessions, log, apiKey, chat, clock, nextSweep, nreq>>

\* a catch block that calls the upstream service a second time before giving up
FetchRejectsRetries(h) ==
    /\ hs[h].pc = "fetch"
    /\ hs' = [hs EXCEPT ![h] = IF @.calls < 2 THEN CallUpstream(@)
                                ELSE Respond(@, 500, "Failed to process request", 0)]
    /\ UNCHANGED <<sessions, heap, log, apiKey, chat, clock, nextSweep, nreq>>

\* await fetch(...) rejects (network error): the catch block answers 500
FetchRejects(h) ==
    /\ hs[h].pc = "fetch"
    /\ hs' = [hs EXCEPT ![h] = Respond(@, 500, "Failed to process request", 0)]
    /\ UNCHANGED <<sessions, heap, log, apiKey, chat, clock, nextSweep, nreq>>

\* await response.text() settles: the handler throws, the catch block answers 500
TextSettles(h) ==
    /\ hs[h].pc = "text"
    /\ hs' = [hs EXCEPT ![h] = Respond(@, 500, "Failed to process request", 0)]
    /\ UNCHANGED <<sessions, heap, log, apiKey, chat, clock, nextSweep, nreq>>

\* a reply step that puts its session back into the registry
JsonResolvesReRegisters(h, answer) ==
    /\ hs[h].pc = "json"
    /\ LET o        == hs[h].session
           messages == PushAssistant(heap[o].messages, answer, clock)
       IN  /\ heap' = [heap EXCEPT ![o].messages = messages]
           /\ log' = [log EXCEPT ![o] =
                        Append(@, Message("assistant", AnswerOrPlaceholder(answer), clock))]
           /\ hs' = [hs EXCEPT ![h] =
                       Respond200(@, ResponseBody([answer |-> answer], @.sid, Len(messages)))]
           /\ sessions' = [sessions EXCEPT ![hs[h].sid] = o]
    /\ UNCHANGED <<apiKey, chat, clock, nextSweep, nreq>>

\* a reply step that also refreshes lastActivity
JsonResolvesTouches(h, answer) ==
    /\ hs[h].pc = "json"
    /\ LET o        == hs[h].session
           messages == PushAssistant(heap[o].messages, answer, clock)
       IN  /\ heap' = [heap EXCEPT ![o] = Touch([@ EXCEPT !.messages = messages], clock)]
           /\ log' = [log EXCEPT ![o] =
                        Append(@, Message("assistant", AnswerOrPlaceholder(answer), clock))]
           /\ hs' = [hs EXCEPT ![h] =
                       Respond200(@, ResponseBody([answer |-> answer], @.sid, Len(messages)))]
    /\ UNCHANGED <<sessions, apiKey, chat, clock, nextSweep, nreq>>

\* await response.json() resolves with the parsed body data
JsonResolvesData(h, data) ==
    /\ hs[h].pc = "json"
    /\ LET o        == hs[h].session
           messages == PushAssistant(heap[o].messages, DataAnswer(data), clock)
       IN  /\ heap' = [heap EXCEPT ![o].messages = messages]
           /\ log' = [log EXCEPT ![o] =
                        Append(@, Message("assistant",
                                          AnswerOrPlaceholder(DataAnswer(data)), clock))]
           /\ hs' = [hs EXCEPT ![h] =
                       Respond200(@, ResponseBody(data, @.sid, Len(messages)))]
    /\ UNCHANGED <<sessions, apiKey, chat, clock, nextSweep, nreq>>

\* await response.json() resolves with a body that holds answer and nothing else
\* (Empty: the answer is "")
JsonResolves(h, answer) == JsonResolvesData(h, [answer |-> answer])

\* await response.json() rejects (body is not JSON): the catch block answers 500
JsonRejects(h) ==
    /\ hs[h].pc = "json"
    /\ hs' = [hs EXCEPT ![h] = Respond(@, 500, "Failed to process request", 0)]
    /\ UNCHANGED <<sessions, heap, log, apiKey, chat, clock, nextSweep, nreq>>

\* the response has been written and the invocation is over
Close(h) ==
    /\ hs[h].pc = "done"
    /\ hs' = [hs EXCEPT ![h] = IdleHandler]
    /\ UNCHANGED <<sessions, heap, log, apiKey, chat, clock, nextSweep, nreq>>

\* a sweep that skips its run while a request is in flight
SweepWhenQuiet ==
    /\ clock >= nextSweep
    /\ sessions' = IF \E h \in H : InFlight(h) THEN sessions ELSE Swept(sessions, clock)
    /\ nextSweep' = nextSweep + SweepPeriod
    /\ UNCHANGED <<heap, log, hs, apiKey, chat, clock, nreq>>

(***************************************************************************)
(* The setInterval callback: delete every session idle for over an hour.   *)
(***************************************************************************)
Sweep ==
    /\ clock >= nextSweep
    /\ sessions' = Swept(sessions, clock)
    /\ nextSweep' = nextSweep + SweepPeriod
    /\ UNCHANGED <<heap, log, hs, apiKey, chat, clock, nreq>>

\* time passes; a due timer callback runs before time moves on
Tick(d) ==
    /\ clock + d <= nextSweep
    /\ clock' = clock + d
    /\ UNCHANGED <<sessions, heap, log, hs, apiKey, chat, nextSweep, nreq>>

(***************************************************************************)
(* Spec: concurrent requests of every kind on two session ids, within one  *)
(* minute (the clock stands still and the timer does not fire).            *)
(***************************************************************************)
\* Handler invocations are interchangeable: a request takes the first idle one.
FirstIdle(h) == hs[h].pc = "idle" /\ \A g \in H : g < h => hs[g].pc # "idle"

Next ==
    \/ \E h \in H, m \in Methods, q \in Queries \cup {Empty}, sid \in SessionIds :
          nreq < MaxRequests /\ FirstIdle(h) /\ Request(h, m, q, sid)
    \/ \E h \in H, ok \in BOOLEAN : FetchResolves(h, ok)
    \/ \E h \in H : FetchRejects(h)
    \/ \E h \in H : TextSettles(h)
    \/ \E h \in H, data \in UpstreamBodies : JsonResolvesData(h, data)
    \/ \E h \in H : JsonRejects(h)
    \/ \E h \in H : Close(h)

Spec == Init /\ [][Next]_vars

(***************************************************************************)
(* SpecExpiry: a few turns, answered or left waiting, spread over more     *)
(* than an hour, with the sweep firing every five minutes.  It samples     *)
(* the minutes at which the timer fires, the minute before and the minute  *)
(* after; requests and upstream answers are sampled in the first sweep     *)
(* period and after the first hour.                                        *)
(***************************************************************************)
TickSteps == {1, 3, 4}
OnGrid(t) == t % SweepPeriod \in {0, 1, 4}
Active    == clock <= SweepPeriod \/ clock >= OneHour

TickExpiry ==
    \E d \in TickSteps : clock + d <= MaxIdleClock /\ OnGrid(clock + d) /\ Tick(d)

NextExpiry ==
    \/ \E h \in H, sid \in SessionIds :
          /\ nreq < MaxIdleTurns /\ Active /\ FirstIdle(h)
          /\ Request(h, "POST", <<"h">>, sid)
    \/ \E h \in H : Active /\ FetchResolves(h, TRUE)
    \/ \E h \in H : Active /\ JsonResolves(h, <<"y">>)
    \/ Sweep
    \/ TickExpiry

SpecExpiry == Init /\ [][NextExpiry]_vars

\* The event loop runs a due timer callback, and time passes; nothing obliges the
\* upstream service to answer.
LiveSpec == SpecExpiry /\ WF_vars(Sweep) /\ WF_vars(TickExpiry)

(***************************************************************************)
(* SpecSeq: one client sending up to MaxTurns turns on one session, one    *)
(* after the other, each answered, or failed while MaxFailures allows,     *)
(* TurnsPerMinute of them in each minute.                                  *)
(***************************************************************************)
SeqQuery(n)  == IF n % 2 = 0 THEN <<"h">> ELSE <<"o", "k">>
SeqAnswer(n) == IF n % 3 = 0 THEN Empty ELSE <<"y">>

CountRole(messages, role) == Cardinality({i \in 1..Len(messages) : messages[i].role = role})

RECURSIVE Unanswered(_)
\* user messages of the first n session objects that got no reply and await none
Unanswered(n) ==
    IF n = 0 THEN 0 - Cardinality({h \in H : InFlight(h)})
    ELSE CountRole(log[n], "user") - CountRole(log[n], "assistant") + Unanswered(n - 1)

\* the minute in which the next request of the sequence arrives
SeqMinute == nreq \div TurnsPerMinute

NextSeq ==
    \/ nreq < MaxTurns /\ clock = SeqMinute /\ Request(1, "POST", SeqQuery(nreq), "A")
    \/ clock < SeqMinute /\ Tick(1)
    \/ FetchResolves(1, TRUE)
    \/ Unanswered(Len(log)) < MaxFailures /\ FetchRejects(1)
    \/ JsonResolves(1, SeqAnswer(nreq))
    \/ Close(1)

SpecSeq == Init /\ [][NextSeq]_vars

(***************************************************************************)
(* SpecAnon: two browser tabs running the chat component that sends only   *)
(* the query, each tab with a text of its own.                             *)
(***************************************************************************)
ClientQuery(c) == IF c = 1 THEN <<"h">> ELSE <<"o", "k">>

NextAnon ==
    \/ \E h \in H, c \in Clients :
          LET body == WorkingChatBody(ClientQuery(c))
          IN  /\ nreq < MaxAnonTurns /\ FirstIdle(h)
              /\ Request(h, "POST", BodyQuery(body), BodySessionId(body))
    \/ \E h \in H : FetchResolves(h, TRUE)
    \/ \E h \in H : FetchRejects(h)
    \/ \E h \in H, a \in Answers : JsonResolves(h, a)
    \/ \E h \in H : Close(h)

SpecAnon == Init /\ [][NextAnon]_vars

(***************************************************************************)
(* SpecTouch: one client on one session over the first minutes, its turns  *)
(* answered or failed in every way, with the first firing of the sweep.    *)
(***************************************************************************)
NextTouch ==
    \/ nreq < MaxTouchTurns /\ Request(1, "POST", <<"h">>, "A")
    \/ \E ok \in BOOLEAN : FetchResolves(1, ok)
    \/ FetchRejects(1)
    \/ TextSettles(1)
    \/ JsonResolves(1, <<"y">>)
    \/ JsonRejects(1)
    \/ Close(1)
    \/ Sweep
    \/ clock < MaxTouchClock /\ Tick(1)

SpecTouch == Init /\ [][NextTouch]_vars

(***************************************************************************)
(* SpecChat: one browser tab sending up to MaxSends messages, up to        *)
(* MaxPending of them awaiting their response at the same time.            *)
(***************************************************************************)
FirstIdleSend(s) ==
    chat.sends[s].pc = "idle" /\ \A t \in ChatSlots : t < s => chat.sends[t].pc # "idle"

NextChat ==
    \/ \E s \in ChatSlots, text \in ChatTexts :
          chat.nsend < MaxSends /\ FirstIdleSend(s) /\ HandleSend(s, text)
    \/ \E s \in ChatSlots, ok \in BOOLEAN : ChatFetchResolves(s, ok)
    \/ \E s \in ChatSlots : ChatFetchRejects(s)
    \/ \E s \in ChatSlots, data \in UpstreamBodies : ChatJsonResolves(s, data)
    \/ \E s \in ChatSlots : ChatJsonRejects(s)

SpecChat == Init /\ [][NextChat]_vars

(***************************************************************************)
(* Properties.                                                             *)
(***************************************************************************)
Objects == 1..Len(heap)

\* the messages pushed onto the session of turn h before its user message
Prior(h) == SubSeq(log[hs[h].session], 1, hs[h].upos - 1)

\* messages rendered one per line as "role: content"
RenderedHistory(messages) ==
    JoinNl([i \in 1..Len(messages) |-> RenderMessage(messages[i])])

\* a prompt made of a history section and the current user text
PromptWithHistory(history, query) ==
    PreviousConversation \o history \o <<"\n">> \o CurrentQuestion \o query

\* C1: after the k-th append a registered session holds exactly min(k, 20)
\* messages, so never more than 20.
RetentionCap ==
    \A k \in SessionIds :
        sessions[k] # NoSession =>
            Len(heap[sessions[k]].messages) = Min(Len(log[sessions[k]]), MaxMessages)

\* C2: the stored messages of a session are a contiguous suffix, in insertion
\* order, of everything appended to it, and the newest appended message is
\* the last stored one.
FifoSuffix ==
    \A o \in Objects :
        LET m == heap[o].messages
            l == log[o]
        IN  /\ Len(m) <= Len(l)
            /\ m = SubSeq(l, Len(l) - Len(m) + 1, Len(l))
            /\ Len(l) > 0 => Len(m) > 0 /\ m[Len(m)] = l[Len(l)]

\* C2 witness: a session from which the oldest messages have been dropped
FifoTruncated ==
    \E o \in Objects :
        /\ Len(log[o]) > Len(heap[o].messages) + 2
        /\ heap[o].messages[Len(heap[o].messages)].role = "assistant"

\* C9 as claimed: the history of a later turn's prompt is the last min(n, 10)
\* prior messages, without the current user text.
ContextLastTenPrior ==
    \A h \in H :
        hs[h].pc = "fetch" /\ hs[h].upos > 1 =>
            hs[h].prompt =
                PromptWithHistory(RenderedHistory(SliceLast(Prior(h), ContextWindow)),
                                  hs[h].query)

\* C9 amended: the history of a later turn's prompt is the last min(n, 9) prior
\* messages in order, each rendered as role and content, without the current
\* user text: the window of 10 counts the current user message.
ContextLastNinePrior ==
    \A h \in H :
        hs[h].pc = "fetch" /\ hs[h].upos > 1 =>
            hs[h].prompt =
                PromptWithHistory(RenderedHistory(SliceLast(Prior(h), ContextWindow - 1)),
                                  hs[h].query)

\* C9 witness: a turn awaiting upstream on a session that held more than 20
\* messages before it
ContextWindowFull ==
    \E h \in H : hs[h].pc = "fetch" /\ hs[h].upos > MaxMessages + 2

\* C10: a turn whose user message is the only message of its session sends
\* the user text alone; any other turn sends a non-empty rendered history
\* section followed by the current user text.
FirstTurnBranching ==
    \A h \in H :
        hs[h].pc = "fetch" =>
            LET p    == hs[h].prompt
                head == Len(PreviousConversation)
                tail == Len(CurrentQuestion) + Len(hs[h].query)
            IN  IF hs[h].upos = 1
                THEN p = hs[h].query
                ELSE /\ Len(p) > head + tail
                     /\ SubSeq(p, 1, head) = PreviousConversation
                     /\ SubSeq(p, Len(p) - tail + 1, Len(p)) = CurrentQuestion \o hs[h].query

\* C10 witness: a first turn and a later turn of the same session both
\* awaiting upstream
BothBranchesTaken ==
    \E f \in H, g \in H :
        /\ hs[f].pc = "fetch" /\ hs[f].upos = 1
        /\ hs[g].pc = "fetch" /\ hs[g].upos > 1
        /\ hs[f].session = hs[g].session

\* C3: a request that fails because the API key is absent leaves the
\* registry as it was: no session created, no message appended, no
\* lastActivity changed.
MissingKeyLeavesRegistry ==
    [][\A h \in H :
          (hs[h].pc = "idle" /\ hs'[h].pc = "done"
                             /\ hs'[h].error = "API key not configured")
          => (hs'[h].status = 500 /\ UNCHANGED <<sessions, heap>>)]_vars

\* C4: the sweep never removes a session while a turn for the same id is
\* between its user append and its reply append, and a turn that completes
\* successfully finds its user message and its reply in the session the
\* registry holds for its id.
SweepSparesInFlight ==
    [][\A h \in H :
          LET o   == hs[h].session
              sid == hs[h].sid
          IN  /\ (hs[h].pc \in {"fetch", "json"} /\ sessions[sid] = o)
                 => sessions'[sid] = o
              /\ (hs[h].pc = "json" /\ hs'[h].pc = "done" /\ hs'[h].status = 200)
                 => /\ sessions'[sid] = o
                    /\ LET m == heap'[o].messages
                       IN  /\ m[Len(m)].role = "assistant"
                           /\ \E i \in 1..Len(m) - 1 : m[i] = log[o][hs[h].upos]]_vars

EveryTurnResponds ==
    \A h \in H : (hs[h].pc = "fetch") ~> (hs[h].pc = "done")

\* C7: when two turns for one session id overlap and both complete, the
\* later completion finds both turns on one session: the user messages in
\* arrival order and both replies.
OverlappingTurnsBothRecorded ==
    [][\A x \in H, y \in H :
          (/\ x # y
           /\ hs[x].pc = "json" /\ hs'[x].pc = "done" /\ hs'[x].status = 200
           /\ hs[y].pc = "done" /\ hs[y].status = 200
           /\ hs[x].sid = hs[y].sid
           /\ hs[x].arr < hs[y].arr \/ hs[x].arr <= hs[y].fin)
          => /\ hs[x].session = hs[y].session
             /\ hs[x].arr < hs[y].arr <=> hs[x].upos < hs[y].upos]_vars

\* C8: a step of a turn on one session id leaves the session of every other
\* id unchanged, and the prompt of a turn is the user text alone or the user
\* text with a history rendered from the messages of its own session.
SessionIsolation ==
    [][\A h \in H :
          (hs'[h] # hs[h] /\ hs'[h].pc # "idle")
          => /\ \A k \in SessionIds \ {hs'[h].sid} :
                   /\ sessions'[k] = sessions[k]
                   /\ sessions[k] # NoSession => heap'[sessions[k]] = heap[sessions[k]]
             /\ \A o \in Objects : heap[o].id # hs'[h].sid => heap'[o] = heap[o]
             /\ hs'[h].pc = "fetch" /\ hs[h].pc = "idle"
                => /\ heap'[hs'[h].session].id = hs'[h].sid
                   /\ hs'[h].prompt =
                        IF hs'[h].upos = 1 THEN hs'[h].query
                        ELSE PromptWithHistory(
                               RenderedHistory(
                                 SliceLast(SubSeq(log'[hs'[h].session], 1, hs'[h].upos - 1),
                                           ContextWindow - 1)),
                               hs'[h].query)]_vars

\* C8 witness: a turn awaiting upstream while both session ids are registered
\* with messages
TurnBesideOtherSession ==
    \E h \in H :
        /\ hs[h].pc = "fetch"
        /\ \A k \in SessionIds :
              sessions[k] # NoSession /\ Len(heap[sessions[k]].messages) > 0

\* the ids the registry holds, and how long a session object has been idle
Registered == {k \in Keys : sessions[k] # NoSession}
IdleFor(o) == clock - heap[o].lastActivity

\* C11: a sweep at time now removes exactly the registered sessions whose
\* last activity is more than 60 minutes before now (61 minutes idle goes,
\* 60 or 59 minutes idle stays), and leaves every session it keeps, and
\* every session object, as it was.
ExpiryBoundary ==
    [][nextSweep' # nextSweep
       => /\ \A k \in Registered :
                sessions'[k] = IF IdleFor(sessions[k]) >= OneHour + 1
                               THEN NoSession ELSE sessions[k]
          /\ \A k \in Keys \ Registered : sessions'[k] = NoSession
          /\ heap' = heap]_vars

\* C11 witness: after a sweep, the session idle for 61 minutes is gone and
\* the session idle for exactly 60 minutes is still registered
RemovedAt61KeptAt60 ==
    \E a \in Objects, b \in Objects :
        /\ nextSweep = clock + SweepPeriod
        /\ sessions[heap[a].id] = NoSession /\ IdleFor(a) = OneHour + 1
        /\ sessions[heap[b].id] = b /\ IdleFor(b) = OneHour

\* C12: the sweep runs every 5 minutes whatever the requests do, so a session
\* that gets no further turn is removed by the first sweep that runs after
\* it has been idle for more than an hour: no registered session is idle
\* for more than one hour plus one sweep period, and none has outlived a
\* sweep that ran after it passed the idle threshold.
ExpiredWithinSweepPeriod ==
    \A k \in Registered :
        LET o == sessions[k]
        IN  /\ IdleFor(o) <= OneHour + SweepPeriod
            /\ IdleFor(o) > OneHour
               => nextSweep - SweepPeriod <= heap[o].lastActivity + OneHour

\* C12 witness: a session that got no further turn has just been removed by
\* the first sweep after its idle threshold, while another turn is in flight
RemovedByFirstSweep ==
    \E o \in Objects, h \in H :
        /\ sessions[heap[o].id] = NoSession
        /\ nextSweep = clock + SweepPeriod
        /\ IdleFor(o) > OneHour /\ IdleFor(o) <= OneHour + SweepPeriod
        /\ InFlight(h) /\ hs[h].session # o

\* C13: running the sweep a second time, with no turn in between and at the
\* same time, leaves the registry as the first run left it.
SweepIdempotent ==
    LET once == Swept(sessions, clock)
    IN  Swept(once, clock) = once

\* C13 witness: a sweep is due with two expired sessions in the registry
TwoExpiredBeforeSweep ==
    /\ clock >= nextSweep
    /\ \A k \in SessionIds : k \in Registered /\ Swept(sessions, clock)[k] = NoSession

\* C14: when the sweep has removed a turn's session between the user append
\* and the reply, recording the reply raises no error (the turn answers 200
\* with its session id), does not put the session back into the registry
\* and changes no session the registry holds.
ReplyForVanishedSession ==
    [][\A h \in H :
          (hs[h].pc = "json" /\ hs'[h].pc # "json" /\ sessions[hs[h].sid] # hs[h].session)
          => /\ hs'[h].pc = "done" /\ hs'[h].status = 200 /\ hs'[h].error = ""
             /\ hs'[h].sid = hs[h].sid
             /\ sessions' = sessions
             /\ \A k \in Registered : heap'[sessions[k]] = heap[sessions[k]]]_vars

\* C14 witness: a turn answered 200 after the sweep had removed its session,
\* and the session is still out of the registry
AnsweredAfterRemoval ==
    \E h \in H :
        LET o == hs[h].session
            m == heap[o].messages
        IN  /\ hs[h].pc = "done" /\ hs[h].status = 200
            /\ sessions[hs[h].sid] = NoSession
            /\ m[Len(m)].role = "assistant"
            /\ m[Len(m)].timestamp > heap[o].lastActivity + OneHour + SweepPeriod

\* C15: every session in the registry holds at least one message: a session
\* is registered in the same step that appends its first user message, also
\* on a turn that fails afterwards.
NoEmptySession ==
    \A k \in Registered : Len(heap[sessions[k]].messages) >= 1

\* C15 witness: a session registered by a turn that failed for the missing
\* API key, holding that turn's user message
RegisteredByFailedTurn ==
    \E h \in H :
        /\ hs[h].pc = "done" /\ hs[h].status = 500 /\ hs[h].upos = 1
        /\ sessions[hs[h].sid] = hs[h].session
        /\ Len(heap[hs[h].session].messages) = 1

\* C16: the lastActivity of a registered session never decreases over turns,
\* replies and sweeps, nor from a session to the one that replaces it under
\* the same id after a sweep, and createdAt <= lastActivity holds for
\* every session.
LastActivityMonotone ==
    [][/\ \A o \in Objects :
             /\ heap'[o].lastActivity >= heap[o].lastActivity
             /\ heap'[o].createdAt = heap[o].createdAt
       /\ \A o \in 1..Len(heap') : heap'[o].createdAt <= heap'[o].lastActivity
       /\ \A k \in Registered :
             sessions'[k] # NoSession
             => heap'[sessions'[k]].lastActivity >= heap[sessions[k]].lastActivity]_vars

\* C16 witness: a registered session that has had a turn after the minute of
\* its creation
TouchedAfterCreation ==
    \E k \in Registered :
        /\ heap[sessions[k]].lastActivity > heap[sessions[k]].createdAt
        /\ Len(log[sessions[k]]) >= 3

\* C17: a POST whose query is empty or absent is answered 400 before the
\* session logic runs: no session is created, no message is appended, no
\* lastActivity is written, and no upstream call is made.
EmptyQueryRejected ==
    [][\A h \in H :
          (hs[h].pc = "idle" /\ hs'[h].pc # "idle"
                             /\ hs'[h].method = "POST" /\ hs'[h].query = Empty)
          => /\ hs'[h].pc = "done" /\ hs'[h].status = 400
             /\ hs'[h].error = "Query is required"
             /\ UNCHANGED <<sessions, heap, log>>]_vars

\* C17 witness: a request rejected for its missing query while a session is
\* registered and another turn awaits upstream
RejectedBesideSession ==
    \E h \in H, g \in H :
        /\ hs[h].pc = "done" /\ hs[h].status = 400
        /\ hs[g].pc = "fetch" /\ sessions[hs[g].sid] = hs[g].session
        /\ hs[h].arr > hs[g].arr

\* C18: sessions leave the registry only through the expiry sweep: a step
\* that removes a registered session, or puts another session in its place,
\* is a step of the sweep and of no request.
OnlySweepRemoves ==
    [][(\E k \in Registered : sessions'[k] # sessions[k])
       => (nextSweep' # nextSweep /\ hs' = hs)]_vars

\* C18 witness: a request other than a first turn has been answered, with
\* or without success, while the session of an earlier turn stays registered
AnsweredBesideRegistered ==
    \E h \in H, k \in Registered :
        /\ hs[h].pc = "done" /\ hs[h].status \in {400, 405, 500}
        /\ hs[h].arr > 1 /\ hs[h].upos # 1

\* C19: turns on different session ids never block each other: while a turn
\* on one id is suspended awaiting its upstream call, a turn on another id
\* can start, and once started can have its upstream call return and can
\* record its reply and complete, whatever the suspended turn does.
TurnsDoNotBlock ==
    \A h \in H, g \in H :
        (g # h /\ hs[h].pc = "fetch")
        => /\ hs[g].pc = "idle"
              => \A sid \in SessionIds \ {hs[h].sid} :
                     ENABLED Request(g, "POST", <<"h">>, sid)
           /\ (hs[g].pc = "fetch" /\ hs[g].sid # hs[h].sid)
              => ENABLED FetchResolves(g, TRUE)
           /\ (hs[g].pc = "json" /\ hs[g].sid # hs[h].sid)
              => ENABLED JsonResolves(g, <<"y">>)

\* C19 witness: a turn on another session id started after a turn that is
\* still suspended awaiting upstream, and has completed with its reply
OvertakenWhileSuspended ==
    \E h \in H, g \in H :
        /\ hs[h].pc = "fetch"
        /\ hs[g].pc = "done" /\ hs[g].status = 200
        /\ hs[g].session # NoSession
        /\ hs[g].sid # hs[h].sid /\ hs[g].arr > hs[h].arr
        /\ Len(heap[hs[g].session].messages) = 2

\* C20: when the external AI service is unavailable the user still gets a
\* fallback response rather than a failure: every accepted turn that has
\* been answered, with the API key configured, has been answered 200 with
\* an assistant message recorded in its session.
GracefulFallback ==
    \A h \in H :
        (hs[h].pc = "done" /\ hs[h].upos > 0 /\ apiKey)
        => /\ hs[h].status = 200
           /\ \E i \in 1..Len(log[hs[h].session]) :
                 /\ i > hs[h].upos
                 /\ log[hs[h].session][i].role = "assistant"

\* a request the handler accepts as a turn: POST, a query, the API key set
Accepted(r) == r.method = "POST" /\ r.query # Empty /\ apiKey

\* C21: the upstream API is invoked exactly once for every accepted turn,
\* never zero times and never again after a failure, and not at all for a
\* request rejected for its method, its missing query or the missing key.
OneUpstreamCallPerTurn ==
    \A h \in H :
        hs[h].pc # "idle" => hs[h].calls = IF Accepted(hs[h]) THEN 1 ELSE 0

\* C21 witness: a turn whose upstream call failed has been answered after
\* one call, next to a request rejected without a call
FailedAfterOneCall ==
    \E h \in H, g \in H :
        /\ hs[h].pc = "done" /\ hs[h].error = "Failed to process request"
        /\ hs[h].calls = 1
        /\ hs[g].pc = "done" /\ hs[g].status \in {400, 405} /\ hs[g].calls = 0

\* C22: a turn on an id the registry does not hold registers a new session
\* with createdAt = lastActivity = now, holding the turn's user message; a
\* turn on a registered id reuses that session, keeps its id and createdAt,
\* and keeps its messages but for the append and the truncation that drops
\* the oldest.
GetOrCreate ==
    [][\A h \in H :
          (hs[h].pc = "idle" /\ hs'[h].upos > 0)
          => LET sid  == hs'[h].sid
                 o    == hs'[h].session
                 user == Message("user", hs'[h].query, clock)
             IN  IF sessions[sid] = NoSession
                 THEN /\ o = Len(heap) + 1 /\ Len(heap') = o
                      /\ sessions' = [sessions EXCEPT ![sid] = o]
                      /\ heap'[o] = [id |-> sid, messages |-> <<user>>,
                                     createdAt |-> clock, lastActivity |-> clock]
                 ELSE /\ o = sessions[sid] /\ Len(heap') = Len(heap)
                      /\ sessions' = sessions
                      /\ heap'[o].id = heap[o].id
                      /\ heap'[o].createdAt = heap[o].createdAt
                      /\ heap'[o].messages =
                            SliceLast(Append(heap[o].messages, user), MaxMessages)]_vars

\* C22 witness: a session created after minute 0 has been reused by a later
\* turn, which awaits upstream
ReusedLater ==
    \E h \in H :
        /\ hs[h].pc = "fetch" /\ hs[h].upos > 1
        /\ sessions[hs[h].sid] = hs[h].session
        /\ heap[hs[h].session].createdAt > 0
        /\ heap[hs[h].session].lastActivity = clock
        /\ heap[hs[h].session].createdAt < clock

\* C23: no stored message has empty content: a user message is appended
\* only for a non-empty query, and a missing or empty upstream answer is
\* stored as the placeholder text.
NoEmptyContent ==
    \A o \in Objects :
        \A i \in 1..Len(heap[o].messages) :
            /\ heap[o].messages[i].content # Empty
            /\ heap[o].messages[i].role = "assistant"
               => heap[o].messages[i].content \in Answers \cup {NoResponseReceived}

\* C23 witness: a session holds the placeholder as the reply to a turn whose
\* upstream answer was empty
PlaceholderStored ==
    \E o \in Objects :
        /\ Len(heap[o].messages) >= 2
        /\ heap[o].messages[2] = Message("assistant", NoResponseReceived, clock)

\* the messages of log that carry the text of client c
SentBy(c, messages) ==
    {i \in 1..Len(messages) :
        messages[i].role = "user" /\ messages[i].content = ClientQuery(c)}

\* C24: requests that carry no sessionId are all handled against one
\* registry entry: every such turn works on the session registered under
\* the one key of an absent id, appends its user message to it, and gets a
\* prompt rendered from the messages that session already holds, whichever
\* client sent them.
AnonymousClientsShare ==
    [][\A h \in H :
          (hs[h].pc = "idle" /\ hs'[h].upos > 0)
          => LET o     == hs'[h].session
                 prior == SubSeq(log'[o], 1, hs'[h].upos - 1)
             IN  /\ hs'[h].sid = Undefined
                 /\ sessions'[Undefined] = o
                 /\ sessions[Undefined] # NoSession => o = sessions[Undefined]
                 /\ Registered \subseteq {Undefined}
                 /\ heap'[o].messages[Len(heap'[o].messages)].content = hs'[h].query
                 /\ hs'[h].pc = "fetch"
                    => hs'[h].prompt =
                         IF prior = << >> THEN hs'[h].query
                         ELSE PromptWithHistory(
                                RenderedHistory(SliceLast(prior, ContextWindow - 1)),
                                hs'[h].query)]_vars

\* C24 witness: the turn of one client awaits upstream with a prompt that
\* renders the message of the other client, and the one session holds the
\* messages of both
PromptShowsOtherClient ==
    \E h \in H :
        /\ hs[h].pc = "fetch" /\ hs[h].query = ClientQuery(2)
        /\ hs[h].prompt =
              PromptWithHistory(RenderMessage(Message("user", ClientQuery(1), clock)),
                                ClientQuery(2))
        /\ SentBy(1, heap[hs[h].session].messages) # {}
        /\ SentBy(2, heap[hs[h].session].messages) # {}

\* C25: expiry is enforced by the sweep alone, never by the lookup: a turn on
\* an id whose session has been idle for more than an hour and has not been
\* swept continues on that session, with a prompt rendered from its old
\* messages, and refreshes its lastActivity; and a sweep keeps every session
\* whose last turn started within the last sweep period.
StaleSessionContinues ==
    [][/\ \A h \in H :
             (/\ hs[h].pc = "idle" /\ hs'[h].upos > 0
              /\ sessions[hs'[h].sid] # NoSession
              /\ IdleFor(sessions[hs'[h].sid]) > OneHour)
             => LET o     == hs'[h].session
                    prior == heap[o].messages
                IN  /\ o = sessions[hs'[h].sid] /\ sessions' = sessions
                    /\ heap'[o].lastActivity = clock
                    /\ hs'[h].pc = "fetch"
                       => hs'[h].prompt =
                            PromptWithHistory(
                              RenderedHistory(SliceLast(prior, ContextWindow - 1)),
                              hs'[h].query)
       /\ nextSweep' # nextSweep
          => \A k \in Registered :
                IdleFor(sessions[k]) <= SweepPeriod => sessions'[k] = sessions[k]]_vars

\* C25 witness: a session whose second turn came more than an hour after its
\* first is still registered after the sweep that followed
StaleSessionSurvives ==
    \E k \in Registered :
        LET o == sessions[k]
        IN  /\ nextSweep > OneHour + SweepPeriod
            /\ log[o][1].timestamp + OneHour < heap[o].lastActivity
            /\ heap[o].createdAt = log[o][1].timestamp
            /\ CountRole(log[o], "user") = 2

\* C26: a turn gets the bare query as its prompt exactly when its own
\* request created the session; a turn on a session the registry already
\* held gets the prompt with the history, also after a first turn that
\* failed and after the truncation at the cap.
FirstBranchIffCreated ==
    [][\A h \in H :
          (hs[h].pc = "idle" /\ hs'[h].pc = "fetch")
          => LET p == hs'[h].prompt
             IN  /\ p = hs'[h].query <=> sessions[hs'[h].sid] = NoSession
                 /\ p # hs'[h].query
                    => SubSeq(p, 1, Len(PreviousConversation)) = PreviousConversation]_vars

\* C26 witness: the turn after a failed first turn awaits upstream with the
\* history prompt
HistoryAfterFailedFirstTurn ==
    \E h \in H :
        /\ hs[h].pc = "fetch" /\ hs[h].upos = 2
        /\ log[hs[h].session][1].role = "user"
        /\ hs[h].prompt # hs[h].query

\* the time of the last user message among messages
LastUserTime(messages) ==
    LET users == {i \in 1..Len(messages) : messages[i].role = "user"}
    IN  messages[CHOOSE i \in users : \A j \in users : j <= i].timestamp

\* C27: lastActivity is written only by the user-append step of a turn: the
\* reply, a failed upstream call and the sweep leave it unchanged, so it is
\* always the time at which the most recent turn of the session started.
LastActivityOnlyByTurn ==
    [][\A o \in 1..Len(heap') :
          /\ (o \in Objects /\ heap'[o].lastActivity # heap[o].lastActivity)
             => \E h \in H : /\ hs[h].pc = "idle" /\ hs'[h].upos > 0
                              /\ hs'[h].session = o
          /\ heap'[o].lastActivity = LastUserTime(log'[o])]_vars

\* C27 witness: after the first sweep, a turn has failed upstream on a
\* session that holds a reply recorded later than its turn started, and
\* time has passed since that failed turn started
RepliedThenFailedLater ==
    \E h \in H :
        LET o == hs[h].session
            m == heap[o].messages
        IN  /\ hs[h].pc = "done" /\ hs[h].error = "Failed to process request"
            /\ nextSweep > SweepPeriod
            /\ clock > heap[o].lastActivity
            /\ \E i \in 2..Len(m) : /\ m[i].role = "assistant"
                                     /\ m[i].timestamp > m[i - 1].timestamp

\* C28: within every session the timestamps of the stored messages are
\* non-decreasing in stored order, however turns, replies and truncations
\* on the session interleave.
TimestampsOrdered ==
    \A o \in Objects :
        \A i \in 1..Len(heap[o].messages) - 1 :
            heap[o].messages[i].timestamp <= heap[o].messages[i + 1].timestamp

\* C28 witness: a session holds the messages of two overlapping turns, user
\* messages first, recorded at three different times
OverlappingTurnsStored ==
    \E o \in Objects :
        LET m == heap[o].messages
        IN  /\ Len(m) = 4
            /\ m[1].role = "user" /\ m[2].role = "user"
            /\ m[1].timestamp < m[2].timestamp
            /\ m[2].timestamp < m[4].timestamp

\* C29: the response of a successful turn holds, as messageCount, the number
\* of messages of the session right after the reply was appended, and, as
\* sessionId, the id of the request, whatever fields of those names the
\* upstream answer holds.
ResponseCountAndId ==
    [][\A h \in H :
          (hs[h].pc = "json" /\ hs'[h].pc = "done" /\ hs'[h].status = 200)
          => /\ hs'[h].count = Len(heap'[hs[h].session].messages)
             /\ hs'[h].count = Len(heap[hs[h].session].messages) + 1
             /\ hs'[h].rsid = hs[h].sid]_vars

\* C29 witness: a turn answered with a count of three, its reply recorded
\* between the two messages of an overlapping turn on its session
CountedBetweenOverlap ==
    \E h \in H, g \in H :
        /\ hs[h].pc = "done" /\ hs[h].status = 200 /\ hs[h].count = 3
        /\ hs[h].rsid = hs[h].sid
        /\ hs[g].pc = "done" /\ hs[g].status = 200 /\ hs[g].count = 4
        /\ hs[g].session = hs[h].session

\* the sends that still await their response, and the messages of send n
PendingSends == {chat.sends[s].n : s \in {t \in ChatSlots : chat.sends[t].pc # "idle"}}
MessagesOf(n, sender) ==
    {i \in 1..Len(chat.messages) :
        chat.messages[i].send = n /\ chat.messages[i].sender = sender}

\* C30: in the chat component that allows sending while a reply is pending,
\* isLoading is true whenever a sent message still awaits its response, and
\* every send has appended exactly one user message and, once it is over,
\* exactly one AI-side message after it.
LoadingWhilePending ==
    /\ PendingSends # {} => chat.isLoading
    /\ \A n \in 1..chat.nsend :
          /\ Cardinality(MessagesOf(n, "user")) = 1
          /\ Cardinality(MessagesOf(n, "ai")) = IF n \in PendingSends THEN 0 ELSE 1
          /\ \A i \in MessagesOf(n, "user"), j \in MessagesOf(n, "ai") : i < j

====
